---- MODULE Spec2Model ----
(***************************************************************************)
(* Model of the address codec of mairu-dns (src/src/addr.rs): AddrV4 and   *)
(* AddrV6 parsing and formatting.                                          *)
(*                                                                         *)
(* Representation.  A text (&str / String) is a sequence of one-character  *)
(* strings.  TLC integers are 32 bits wide, so a u128 is the sequence of   *)
(* its 8 sixteen-bit groups and a u32 the sequence of its 4 octets, most   *)
(* significant first; shifts and ors are defined on these sequences.       *)
(* A Result<T, Error> is a record [tag, val, err].  stdout is the sequence  *)
(* of lines the process has printed.                                       *)
(***************************************************************************)
EXTENDS Integers, Sequences, FiniteSets, TLC

VARIABLES pc, call, input, parsed, text, reparsed, stdout

vars == <<pc, call, input, parsed, text, reparsed, stdout>>

(***************************************************************************)
(* Characters and their ASCII codes (the code compares chars by code).     *)
(***************************************************************************)
Digits == <<"0", "1", "2", "3", "4", "5", "6", "7", "8", "9">>

LowerHex == <<"a", "b", "c", "d", "e", "f">>

UpperHex == <<"A", "B", "C", "D", "E", "F">>

Ascii ==
  [c \in {Digits[i] : i \in 1..10} |-> 47 + CHOOSE i \in 1..10 : Digits[i] = c]
  @@ [c \in {LowerHex[i] : i \in 1..6} |-> 96 + CHOOSE i \in 1..6 : LowerHex[i] = c]
  @@ [c \in {UpperHex[i] : i \in 1..6} |-> 64 + CHOOSE i \in 1..6 : UpperHex[i] = c]
  @@ (" " :> 32) @@ ("-" :> 45) @@ ("." :> 46) @@ ("/" :> 47) @@ (":" :> 58)
  @@ ("@" :> 64) @@ ("G" :> 71) @@ ("g" :> 103)

Ord(ch) == Ascii[ch]

(***************************************************************************)
(* Result<T, Error>                                                        *)
(***************************************************************************)
Ok(v) == [tag |-> "Ok", val |-> v, err |-> "none"]

Err(e) == [tag |-> "Err", val |-> <<>>, err |-> e]

Panic == [tag |-> "Panic", val |-> <<>>, err |-> "none"]

None == [tag |-> "None", val |-> <<>>, err |-> "none"]

(***************************************************************************)
(* Fixed-width integers                                                    *)
(***************************************************************************)
RECURSIVE BitOr(_, _)
BitOr(a, b) ==
  IF a = 0 THEN b
  ELSE IF b = 0 THEN a
  ELSE (a % 2) + (b % 2) - (a % 2) * (b % 2) + 2 * BitOr(a \div 2, b \div 2)

\* a u128 is 8 groups of 16 bits, a u32 is 4 groups of 8 bits
U128Zero == [i \in 1..8 |-> 0]

U32Zero == [i \in 1..4 |-> 0]

\* x << (k groups): the k most significant groups are lost
ShlGroups(x, k) == [i \in 1..Len(x) |-> IF i + k <= Len(x) THEN x[i + k] ELSE 0]

\* x | y for two words of the same width
OrWord(x, y) == [i \in 1..Len(x) |-> BitOr(x[i], y[i])]

\* x | (c as word) for a c that fits in one group
OrLow(x, c) == [x EXCEPT ![Len(x)] = BitOr(x[Len(x)], c)]

(***************************************************************************)
(* String helpers of the standard library                                  *)
(***************************************************************************)
StartsWith(s, pat) == Len(s) >= Len(pat) /\ SubSeq(s, 1, Len(pat)) = pat

\* str::split(pat): the parts between the non-overlapping matches of pat,
\* found left to right
RECURSIVE SplitFrom(_, _, _)
SplitFrom(s, pat, cur) ==
  IF Len(s) = 0 THEN <<cur>>
  ELSE IF StartsWith(s, pat)
    THEN <<cur>> \o SplitFrom(SubSeq(s, Len(pat) + 1, Len(s)), pat, <<>>)
    ELSE SplitFrom(Tail(s), pat, Append(cur, Head(s)))

Split(s, pat) == SplitFrom(s, pat, <<>>)

\* Iterator::filter(|s| s.len() > 0)
NonEmpty(parts) == SelectSeq(parts, LAMBDA p : Len(p) > 0)

\* [String]::join(sep)
RECURSIVE Join(_, _)
Join(strs, sep) ==
  IF Len(strs) = 0 THEN <<>>
  ELSE IF Len(strs) = 1 THEN strs[1]
  ELSE strs[1] \o sep \o Join(Tail(strs), sep)

\* format!("{:x}", v)
RECURSIVE FmtHex(_)
FmtHex(v) ==
  LET d == v % 16
      ch == IF d < 10 THEN Digits[d + 1] ELSE LowerHex[d - 9]
  IN IF v < 16 THEN <<ch>> ELSE Append(FmtHex(v \div 16), ch)

\* format!("{}", v)
RECURSIVE FmtDec(_)
FmtDec(v) ==
  IF v < 10 THEN <<Digits[v + 1]>> ELSE Append(FmtDec(v \div 10), Digits[(v % 10) + 1])

\* the integer range lo..hi collected into a Vec (empty when lo > hi)
Range(lo, hi) == [k \in 1..(IF hi >= lo THEN hi - lo + 1 ELSE 0) |-> lo + k - 1]

(***************************************************************************)
(* AddrV6                                                                  *)
(***************************************************************************)
\* the loop body of hextet_to_u16: one char folded into comp
RECURSIVE hextet_chars(_, _)
hextet_chars(s, comp) ==
  IF Len(s) = 0 THEN Ok(comp)
  ELSE LET ch == Head(s)
           o == Ord(ch)
       IN IF o >= Ord("0") /\ o <= Ord("9")
            THEN hextet_chars(Tail(s), BitOr((comp * 16) % 65536, o - Ord("0")))
          ELSE IF o >= Ord("a") /\ o <= Ord("f")
            THEN hextet_chars(Tail(s), BitOr((comp * 16) % 65536, o - Ord("a") + 10))
          ELSE IF o >= Ord("A") /\ o <= Ord("F")
            THEN hextet_chars(Tail(s), BitOr((comp * 16) % 65536, o - Ord("A") + 10))
          ELSE Err("IllegalChar")

\* hextet_to_u16 with the leading zeros stripped before the length check
hextet_to_u16_trims(hextet) ==
  LET RECURSIVE strip(_)
      strip(t) == IF Len(t) > 0 /\ Head(t) = "0" THEN strip(Tail(t)) ELSE t
  IN IF Len(strip(hextet)) > 4 THEN Err("Overflow") ELSE hextet_chars(hextet, 0)

hextet_to_u16(hextet) ==
  IF Len(hextet) > 4 THEN Err("Overflow") ELSE hextet_chars(hextet, 0)

\* for s in &tokens { let cur = hextet_to_u16(&s)?; acc = (acc << 16) | cur }
RECURSIVE convert_hextets(_, _)
convert_hextets(tokens, acc) ==
  IF Len(tokens) = 0 THEN Ok(acc)
  ELSE LET cur == hextet_to_u16(Head(tokens))
       IN IF cur.tag # "Ok" THEN cur
          ELSE convert_hextets(Tail(tokens), OrLow(ShlGroups(acc, 1), cur.val))

\* v6_parts with splitn(2, "::") for split("::"): only the first "::" splits
v6_parts_splitn(addr) ==
  LET RECURSIVE first(_, _)
      first(t, cur) ==
        IF Len(t) = 0 THEN <<cur>>
        ELSE IF StartsWith(t, <<":", ":">>) THEN <<cur, SubSeq(t, 3, Len(t))>>
        ELSE first(Tail(t), Append(cur, Head(t)))
      outer == first(addr, <<>>)
  IN [k \in 1..Len(outer) |-> NonEmpty(Split(outer[k], <<":">>))]

\* addr.split("::").map(|part| part.split(":").filter(non-empty).collect())
v6_parts(addr) ==
  LET outer == Split(addr, <<":", ":">>)
  IN [k \in 1..Len(outer) |-> NonEmpty(Split(outer[k], <<":">>))]

\* v6_assemble with the suffix tokens converted before the prefix tokens
v6_assemble_suffix_first(prefix, suffix) ==
  LET prefix_i == convert_hextets(prefix, U128Zero)
      suffix_i == convert_hextets(suffix, U128Zero)
      shift == 16 * (8 - Len(prefix))
  IN IF suffix_i.tag # "Ok" THEN suffix_i
     ELSE IF prefix_i.tag # "Ok" THEN prefix_i
     ELSE IF Len(prefix) > 0
       THEN IF shift < 0 \/ shift >= 128 THEN Panic
            ELSE Ok(OrWord(suffix_i.val, ShlGroups(prefix_i.val, shift \div 16)))
     ELSE Ok(suffix_i.val)

\* the conversion of prefix and suffix and the final assembly
v6_assemble(prefix, suffix) ==
  LET prefix_i == convert_hextets(prefix, U128Zero)
      suffix_i == convert_hextets(suffix, U128Zero)
      shift == 16 * (8 - Len(prefix))
  IN IF prefix_i.tag # "Ok" THEN prefix_i
     ELSE IF suffix_i.tag # "Ok" THEN suffix_i
     ELSE IF Len(prefix) > 0
       THEN IF shift < 0 \/ shift >= 128 THEN Panic
            ELSE Ok(OrWord(suffix_i.val, ShlGroups(prefix_i.val, shift \div 16)))
     ELSE Ok(suffix_i.val)

\* AddrV6_from_string with `> 8` for `>= 8` in the two-part branch
AddrV6_from_string_fills_none(addr) ==
  LET parts == v6_parts(addr)
  IN IF Len(parts) = 0 THEN Err("MissingComponents")
     ELSE IF Len(parts) = 1
       THEN IF Len(parts[1]) < 8 THEN Err("MissingComponents")
            ELSE IF Len(parts[1]) > 8 THEN Err("Overflow")
            ELSE v6_assemble(<<>>, parts[1])
     ELSE IF Len(parts) = 2
       THEN IF Len(parts[1]) + Len(parts[2]) > 8 THEN Err("Overflow")
            ELSE v6_assemble(parts[1], parts[2])
     ELSE Err("DoubleCompression")

\* AddrV6_from_string with `< 7` for `< 8` in the one-part branch
AddrV6_from_string_short(addr) ==
  LET parts == v6_parts(addr)
  IN IF Len(parts) = 0 THEN Err("MissingComponents")
     ELSE IF Len(parts) = 1
       THEN IF Len(parts[1]) < 7 THEN Err("MissingComponents")
            ELSE IF Len(parts[1]) > 8 THEN Err("Overflow")
            ELSE v6_assemble(<<>>, parts[1])
     ELSE IF Len(parts) = 2
       THEN IF Len(parts[1]) + Len(parts[2]) >= 8 THEN Err("Overflow")
            ELSE v6_assemble(parts[1], parts[2])
     ELSE Err("DoubleCompression")

\* AddrV6_from_string without the count check of the two-part branch
AddrV6_from_string_unchecked(addr) ==
  LET parts == v6_parts(addr)
  IN IF Len(parts) = 0 THEN Err("MissingComponents")
     ELSE IF Len(parts) = 1
       THEN IF Len(parts[1]) < 8 THEN Err("MissingComponents")
            ELSE IF Len(parts[1]) > 8 THEN Err("Overflow")
            ELSE v6_assemble(<<>>, parts[1])
     ELSE IF Len(parts) = 2
       THEN v6_assemble(parts[1], parts[2])
     ELSE Err("DoubleCompression")

AddrV6_from_string(addr) ==
  LET parts == v6_parts(addr)
  IN IF Len(parts) = 0 THEN Err("MissingComponents")
     ELSE IF Len(parts) = 1
       THEN IF Len(parts[1]) < 8 THEN Err("MissingComponents")
            ELSE IF Len(parts[1]) > 8 THEN Err("Overflow")
            ELSE v6_assemble(<<>>, parts[1])
     ELSE IF Len(parts) = 2
       THEN IF Len(parts[1]) + Len(parts[2]) >= 8 THEN Err("Overflow")
            ELSE v6_assemble(parts[1], parts[2])
     ELSE Err("DoubleCompression")

AddrV6_from_u128(addr) == Ok(addr)

\* hextets[i] = (self.addr >> 16 * (7 - i)) & 0xffff, i in 0..8
v6_hextets(addr) == [i \in 0..7 |-> addr[i + 1]]

\* dp[i]: the length of the run of zero groups ending at group i
RECURSIVE v6_dp(_, _)
v6_dp(hextets, i) ==
  IF hextets[i] = 0
    THEN (IF i > 0 THEN v6_dp(hextets, i - 1) ELSE 0) + 1
    ELSE 0

\* v6_locate with `>=` for `>`: among runs of equal length the last one wins
RECURSIVE v6_locate_last(_, _, _, _)
v6_locate_last(hextets, i, max_len, max_pos) ==
  IF i >= 8 THEN [max_len |-> max_len, max_pos |-> max_pos]
  ELSE IF v6_dp(hextets, i) >= max_len
    THEN v6_locate_last(hextets, i + 1, v6_dp(hextets, i), i)
    ELSE v6_locate_last(hextets, i + 1, max_len, max_pos)

\* for i in 0..8 { if dp[i] > max_len { max_len = dp[i]; max_pos = i } }
RECURSIVE v6_locate(_, _, _, _)
v6_locate(hextets, i, max_len, max_pos) ==
  IF i >= 8 THEN [max_len |-> max_len, max_pos |-> max_pos]
  ELSE IF v6_dp(hextets, i) > max_len
    THEN v6_locate(hextets, i + 1, v6_dp(hextets, i), i)
    ELSE v6_locate(hextets, i + 1, max_len, max_pos)

\* v6_compress with the suffix range starting one group late
v6_compress_drops_group(hextets, max_len, max_pos) ==
  LET pre_i == Range(0, max_pos - max_len)
      suf_i == Range(max_pos + 2, 7)
      idx_to_str(i) == FmtHex(hextets[i])
      joined == [k \in 1..Len(pre_i) |-> idx_to_str(pre_i[k])]
                \o << <<>> >>
                \o [k \in 1..Len(suf_i) |-> idx_to_str(suf_i[k])]
      len == Len(joined)
  IN IF joined[1] = <<>> THEN [joined EXCEPT ![1] = <<":">>]
     ELSE IF joined[len] = <<>> THEN [joined EXCEPT ![len] = <<":">>]
     ELSE joined

\* v6_compress without the fix of a marker at either end
v6_compress_no_edge_fix(hextets, max_len, max_pos) ==
  LET pre_i == Range(0, max_pos - max_len)
      suf_i == Range(max_pos + 1, 7)
      idx_to_str(i) == FmtHex(hextets[i])
  IN [k \in 1..Len(pre_i) |-> idx_to_str(pre_i[k])]
     \o << <<>> >>
     \o [k \in 1..Len(suf_i) |-> idx_to_str(suf_i[k])]

\* the compressed branch: prefix indices, the empty marker, suffix indices,
\* and the fix of a marker at either end
v6_compress(hextets, max_len, max_pos) ==
  LET pre_i == Range(0, max_pos - max_len)
      suf_i == Range(max_pos + 1, 7)
      idx_to_str(i) == FmtHex(hextets[i])
      joined == [k \in 1..Len(pre_i) |-> idx_to_str(pre_i[k])]
                \o << <<>> >>
                \o [k \in 1..Len(suf_i) |-> idx_to_str(suf_i[k])]
      len == Len(joined)
  IN IF joined[1] = <<>> THEN [joined EXCEPT ![1] = <<":">>]
     ELSE IF joined[len] = <<>> THEN [joined EXCEPT ![len] = <<":">>]
     ELSE joined

\* AddrV6_to_string with `max_len > 0` for `max_len > 1`
AddrV6_to_string_single(addr) ==
  IF addr = U128Zero THEN <<":", ":">>
  ELSE LET hextets == v6_hextets(addr)
           m == v6_locate(hextets, 0, 0, 0)
       IN IF m.max_len > 0
            THEN Join(v6_compress(hextets, m.max_len, m.max_pos), <<":">>)
            ELSE Join([k \in 1..8 |-> FmtHex(hextets[k - 1])], <<":">>)

AddrV6_to_string(addr) ==
  IF addr = U128Zero THEN <<":", ":">>
  ELSE LET hextets == v6_hextets(addr)
           m == v6_locate(hextets, 0, 0, 0)
       IN IF m.max_len > 1
            THEN Join(v6_compress(hextets, m.max_len, m.max_pos), <<":">>)
            ELSE Join([k \in 1..8 |-> FmtHex(hextets[k - 1])], <<":">>)

\* println!("error: {:?}, {}, {}", pre_i, max_pos, max_len) of the
\* compression branch: the lines one call of to_string prints
AddrV6_to_string_prints(addr) ==
  IF addr = U128Zero THEN <<>>
  ELSE LET m == v6_locate(v6_hextets(addr), 0, 0, 0)
       IN IF m.max_len > 1
            THEN << <<"error: ", Range(0, m.max_pos - m.max_len), m.max_pos, m.max_len>> >>
            ELSE <<>>

(***************************************************************************)
(* AddrV4                                                                  *)
(***************************************************************************)
\* str::trim_start_matches('0')
RECURSIVE trim_start_zeros(_)
trim_start_zeros(s) ==
  IF Len(s) > 0 /\ Head(s) = "0" THEN trim_start_zeros(Tail(s)) ELSE s

\* component_digits with a value above 255 clamped to 255
RECURSIVE component_digits_clamps(_, _)
component_digits_clamps(s, res) ==
  IF Len(s) = 0 THEN (IF res < 256 THEN Ok(res) ELSE Ok(255))
  ELSE LET ch == Head(s)
       IN IF Ord(ch) < Ord("0") \/ Ord(ch) > Ord("9") THEN Err("IllegalChar")
          ELSE component_digits_clamps(Tail(s), res * 10 + Ord(ch) - Ord("0"))

\* component_digits with the `ch > '9'` test missing
RECURSIVE component_digits_lower_only(_, _)
component_digits_lower_only(s, res) ==
  IF Len(s) = 0 THEN (IF res < 256 THEN Ok(res) ELSE Err("Overflow"))
  ELSE LET ch == Head(s)
       IN IF Ord(ch) < Ord("0") THEN Err("IllegalChar")
          ELSE component_digits_lower_only(Tail(s), res * 10 + Ord(ch) - Ord("0"))

\* the digit loop of component_to_u8 and its final range check
RECURSIVE component_digits(_, _)
component_digits(s, res) ==
  IF Len(s) = 0 THEN (IF res < 256 THEN Ok(res) ELSE Err("Overflow"))
  ELSE LET ch == Head(s)
       IN IF Ord(ch) < Ord("0") \/ Ord(ch) > Ord("9") THEN Err("IllegalChar")
          ELSE component_digits(Tail(s), res * 10 + Ord(ch) - Ord("0"))

\* component_to_u8 without the test for an empty component
component_to_u8_empty_zero(s) ==
  LET t == trim_start_zeros(s)
  IN IF Len(t) > 3 THEN Err("Overflow") ELSE component_digits(t, 0)

\* component_to_u8 with the character check before the length check
component_to_u8_chars_first(s) ==
  IF Len(s) = 0 THEN Err("NullComponent")
  ELSE LET t == trim_start_zeros(s)
       IN IF \E i \in 1..Len(t) : Ord(t[i]) < Ord("0") \/ Ord(t[i]) > Ord("9")
            THEN Err("IllegalChar")
          ELSE IF Len(t) > 3 THEN Err("Overflow") ELSE component_digits(t, 0)

\* component_to_u8 with the length check on the component as written
component_to_u8_no_trim(s) ==
  IF Len(s) = 0 THEN Err("NullComponent")
  ELSE IF Len(s) > 3 THEN Err("Overflow") ELSE component_digits(s, 0)

component_to_u8(s) ==
  IF Len(s) = 0 THEN Err("NullComponent")
  ELSE LET t == trim_start_zeros(s)
       IN IF Len(t) > 3 THEN Err("Overflow") ELSE component_digits(t, 0)

\* the state of the loop of AddrV4::from_string
V4Loop(buffer, res, cnt) ==
  [tag |-> "Loop", buffer |-> buffer, res |-> res, cnt |-> cnt]

\* for ch in addr.chars() { ... }: the loop state at the end of the text, or
\* the error the loop returned
RECURSIVE v4_scan(_, _)
v4_scan(s, st) ==
  IF Len(s) = 0 THEN st
  ELSE IF Head(s) = "."
    THEN IF st.cnt >= 4 THEN Err("Overflow")
         ELSE LET comp == component_to_u8(st.buffer)
              IN IF comp.tag # "Ok" THEN comp
                 ELSE v4_scan(Tail(s),
                        V4Loop(<<>>, OrLow(ShlGroups(st.res, 1), comp.val), st.cnt + 1))
    ELSE v4_scan(Tail(s), V4Loop(Append(st.buffer, Head(s)), st.res, st.cnt))

\* AddrV4_from_string with `cnt > 4` for `cnt >= 4` after the loop
AddrV4_from_string_late(addr) ==
  LET st == v4_scan(addr, V4Loop(<<>>, U32Zero, 0))
  IN IF st.tag # "Loop" THEN st
     ELSE IF st.cnt > 4 THEN Err("Overflow")
     ELSE LET comp == component_to_u8(st.buffer)
          IN IF comp.tag # "Ok" THEN comp
             ELSE IF st.cnt + 1 = 4
               THEN Ok(OrLow(ShlGroups(st.res, 1), comp.val))
               ELSE Err("MissingComponents")

\* AddrV4_from_string with `cnt >= 3` for `cnt == 4` in the final count check
AddrV4_from_string_shorthand(addr) ==
  LET st == v4_scan(addr, V4Loop(<<>>, U32Zero, 0))
  IN IF st.tag # "Loop" THEN st
     ELSE IF st.cnt >= 4 THEN Err("Overflow")
     ELSE LET comp == component_to_u8(st.buffer)
          IN IF comp.tag # "Ok" THEN comp
             ELSE IF st.cnt + 1 >= 3
               THEN Ok(OrLow(ShlGroups(st.res, 1), comp.val))
               ELSE Err("MissingComponents")

AddrV4_from_string(addr) ==
  LET st == v4_scan(addr, V4Loop(<<>>, U32Zero, 0))
  IN IF st.tag # "Loop" THEN st
     ELSE IF st.cnt >= 4 THEN Err("Overflow")
     ELSE LET comp == component_to_u8(st.buffer)
          IN IF comp.tag # "Ok" THEN comp
             ELSE IF st.cnt + 1 = 4
               THEN Ok(OrLow(ShlGroups(st.res, 1), comp.val))
               ELSE Err("MissingComponents")

AddrV4_from_u32(addr) == Ok(addr)

\* irepr << 4 on a u32
Shl4(x) ==
  [i \in 1..4 |-> ((x[i] * 16) % 256) + (IF i < 4 THEN x[i + 1] \div 16 ELSE 0)]

\* v4_hex_scan rejecting a character that is no hexadecimal digit
RECURSIVE v4_hex_scan_strict(_, _, _)
v4_hex_scan_strict(s, cnt, irepr) ==
  IF Len(s) = 0
    THEN (IF cnt = 8 THEN Ok(irepr) ELSE Err("MissingComponents"))
  ELSE LET o == Ord(Head(s))
           isdigit == o >= Ord("0") /\ o <= Ord("9")
           islower == o >= Ord("a") /\ o <= Ord("f")
           isupper == o >= Ord("A") /\ o <= Ord("F")
           cur == IF isdigit THEN o - Ord("0")
                  ELSE IF islower THEN o - Ord("a") + 10
                  ELSE o - Ord("A") + 10
       IN IF ~(isdigit \/ islower \/ isupper) THEN Err("IllegalChar")
          ELSE IF cnt >= 8 THEN Err("Overflow")
          ELSE v4_hex_scan_strict(Tail(s), cnt + 1, OrLow(Shl4(irepr), cur))

\* the loop of AddrV4::from_hex
RECURSIVE v4_hex_scan(_, _, _)
v4_hex_scan(s, cnt, irepr) ==
  IF Len(s) = 0
    THEN (IF cnt = 8 THEN Ok(irepr) ELSE Err("MissingComponents"))
  ELSE LET o == Ord(Head(s))
           isdigit == o >= Ord("0") /\ o <= Ord("9")
           islower == o >= Ord("a") /\ o <= Ord("f")
           isupper == o >= Ord("A") /\ o <= Ord("F")
           cur == IF isdigit THEN o - Ord("0")
                  ELSE IF islower THEN o - Ord("a") + 10
                  ELSE o - Ord("A") + 10
       IN IF ~(isdigit \/ islower \/ isupper) THEN v4_hex_scan(Tail(s), cnt, irepr)
          ELSE IF cnt >= 8 THEN Err("Overflow")
          ELSE v4_hex_scan(Tail(s), cnt + 1, OrLow(Shl4(irepr), cur))

AddrV4_from_hex(addr) == v4_hex_scan(addr, 0, U32Zero)

\* format!("{}.{}.{}.{}", (addr >> 24) & 0xff, ..., addr & 0xff)
AddrV4_to_string(addr) ==
  FmtDec(addr[1]) \o <<".">> \o FmtDec(addr[2]) \o <<".">>
    \o FmtDec(addr[3]) \o <<".">> \o FmtDec(addr[4])

(***************************************************************************)
(* Inputs                                                                  *)
(***************************************************************************)
\* the values a 16-bit group takes in the formatted addresses
HextetVals == {0, 416, 65535}

V6Values == [1..8 -> HextetVals]

\* the values an octet takes in the formatted addresses
OctetVals == {0, 7, 10, 99, 100, 255}

V4Values == [1..4 -> OctetVals]

Colons(k) == [i \in 1..k |-> ":"]

Flatten(strs) == Join(strs, <<>>)

\* the subsets of S with at most k elements
OddSets(S, k) == { T \in SUBSET S : Cardinality(T) <= k }

\* A V6 text is n hextet tokens with a run of colons in each of the n + 1
\* gaps around them.  In the plain form the tokens are those of
\* V6PlainTokens, the inner gaps are one colon and the two outer gaps are
\* empty.  At most MaxOdd tokens and gaps together differ from the plain
\* form: the first, the second or the last token is one of V6OddTokens, an
\* inner gap is "::" (the first inner gap also ":::"), an outer gap is ":"
\* or "::" (the only gap of a text without tokens also ":::").
MaxTokens == 9

MaxOdd == 3

V6PlainTokens ==
  << <<"1">>, <<"2">>, <<"3">>, <<"4">>, <<"5">>, <<"6">>,
     <<"7">>, <<"8">>, <<"9">>, <<"a">>, <<"b">>, <<"c">> >>

V6OddTokens ==
  { <<"0", "0", "a", "b">>, <<"0", "0", "A", "B">>, <<"0", "1", "2", "3", "4">>,
    <<"1", "2", "3", "g">>, <<" ", "4", "5", "6">>, <<"g", "0", "0", "0", "0">> }

PlainGaps(n) == [p \in 0..n |-> IF p = 0 \/ p = n THEN 0 ELSE 1]

OddTokenPlaces(n) == {1, 2, n} \cap (1..n)

OddGapRuns(n, p) ==
  IF n = 0 THEN {1, 2, 3}
  ELSE IF p = 0 \/ p = n THEN {1, 2}
  ELSE IF p = 1 THEN {2, 3}
  ELSE {2}

\* the colon runs of the gaps of G that differ from the plain form
OddGaps(n, G) == { h \in [G -> 1..3] : \A p \in G : h[p] \in OddGapRuns(n, p) }

V6Text(n, G, h, T, f) ==
  LET gap(p) == Colons(IF p \in G THEN h[p] ELSE PlainGaps(n)[p])
      tok(i) == IF i \in T THEN f[i] ELSE V6PlainTokens[i]
  IN gap(0) \o Flatten([i \in 1..n |-> tok(i) \o gap(i)])

\* A V4 text is n components joined by dots; at most MaxOddComps of them
\* differ from the component of their position in V4PlainComps.
MaxComps == 5

MaxOddComps == 2

V4PlainComps ==
  << <<"1", "9", "2">>, <<"1", "6", "8">>, <<"0">>, <<"1">>, <<"7">>, <<"9">>, <<"3">> >>

V4OddComps ==
  { <<>>, <<"2", "5", "5">>, <<"2", "5", "6">>, <<"9", "9", "9">>,
    <<"0", "0", "0", "0", "0", "0">>, <<"0", "0", "0", "1", "0", "0">>,
    <<"1", "0", "0", "0">>, <<"0", "0", "2", "5", "6">>,
    <<"-", "9", "2">>, <<"-", "1", "9", "2">>, <<"0", "0", "1", "a">>,
    <<"1", "/">>, <<":", "1">> }

V4Text(n, T, f) ==
  Join([i \in 1..n |-> IF i \in T THEN f[i] ELSE V4PlainComps[i]], <<".">>)

\* A hex text is n hex digits, one of them possibly replaced by another
\* character, with a separator after every second digit.
MaxHexDigits == 9

HexPlainDigits == <<"c", "0", "a", "8", "0", "1", "f", "2", "9", "5", "e">>

HexOddChars == {"F", "A", "b", "g", "G", "/", ":", "@", " ", "."}

HexSeparators == { <<>>, <<":">>, <<"-">> }

HexText(digits, sep) ==
  Flatten([i \in 1..Len(digits) |->
             <<digits[i]>> \o (IF i % 2 = 0 /\ i < Len(digits) THEN sep ELSE <<>>)])

HexDigitChoices(n) ==
  LET plain == SubSeq(HexPlainDigits, 1, n)
  IN {plain} \cup { [plain EXCEPT ![i] = c] : i \in 1..n, c \in HexOddChars }

(***************************************************************************)
(* State machine: a caller constructs an address (from an integer or by    *)
(* parsing a text), formats it, and parses the formatted text again.       *)
(***************************************************************************)
V6Calls == {"AddrV6::from_u128", "AddrV6::from_string"}

V4Calls == {"AddrV4::from_u32", "AddrV4::from_string", "AddrV4::from_hex"}

Init ==
  /\ pc = "idle"
  /\ call = "none"
  /\ input = <<>>
  /\ parsed = None
  /\ text = <<>>
  /\ reparsed = None
  /\ stdout = <<>>

V6FromU128 ==
  /\ pc = "idle"
  /\ \E v \in V6Values :
       /\ input' = v
       /\ parsed' = AddrV6_from_u128(v)
  /\ pc' = "constructed"
  /\ call' = "AddrV6::from_u128"
  /\ UNCHANGED <<text, reparsed, stdout>>

V6FromString ==
  /\ pc = "idle"
  /\ \E n \in 0..MaxTokens :
       \E T \in OddSets(OddTokenPlaces(n), MaxOdd) :
         \E G \in OddSets(0..n, MaxOdd - Cardinality(T)) :
           \E f \in [T -> V6OddTokens], h \in OddGaps(n, G) :
             /\ input' = V6Text(n, G, h, T, f)
             /\ parsed' = AddrV6_from_string(V6Text(n, G, h, T, f))
  /\ pc' = "constructed"
  /\ call' = "AddrV6::from_string"
  /\ UNCHANGED <<text, reparsed, stdout>>

V6ToString ==
  /\ pc = "constructed"
  /\ call \in V6Calls
  /\ parsed.tag = "Ok"
  /\ pc' = "formatted"
  /\ text' = AddrV6_to_string(parsed.val)
  /\ stdout' = stdout \o AddrV6_to_string_prints(parsed.val)
  /\ UNCHANGED <<call, input, parsed, reparsed>>

V6Reparse ==
  /\ pc = "formatted"
  /\ call \in V6Calls
  /\ pc' = "reparsed"
  /\ reparsed' = AddrV6_from_string(text)
  /\ UNCHANGED <<call, input, parsed, text, stdout>>

V4FromU32 ==
  /\ pc = "idle"
  /\ \E w \in V4Values :
       /\ input' = w
       /\ parsed' = AddrV4_from_u32(w)
  /\ pc' = "constructed"
  /\ call' = "AddrV4::from_u32"
  /\ UNCHANGED <<text, reparsed, stdout>>

V4FromString ==
  /\ pc = "idle"
  /\ \E n \in 1..MaxComps :
       \E T \in OddSets(1..n, MaxOddComps) :
         \E f \in [T -> V4OddComps] :
           /\ input' = V4Text(n, T, f)
           /\ parsed' = AddrV4_from_string(V4Text(n, T, f))
  /\ pc' = "constructed"
  /\ call' = "AddrV4::from_string"
  /\ UNCHANGED <<text, reparsed, stdout>>

V4FromHex ==
  /\ pc = "idle"
  /\ \E n \in 0..MaxHexDigits :
       \E d \in HexDigitChoices(n), sep \in HexSeparators :
         /\ input' = HexText(d, sep)
         /\ parsed' = AddrV4_from_hex(HexText(d, sep))
  /\ pc' = "constructed"
  /\ call' = "AddrV4::from_hex"
  /\ UNCHANGED <<text, reparsed, stdout>>

V4ToString ==
  /\ pc = "constructed"
  /\ call \in V4Calls
  /\ parsed.tag = "Ok"
  /\ pc' = "formatted"
  /\ text' = AddrV4_to_string(parsed.val)
  /\ UNCHANGED <<call, input, parsed, reparsed, stdout>>

V4Reparse ==
  /\ pc = "formatted"
  /\ call \in V4Calls
  /\ pc' = "reparsed"
  /\ reparsed' = AddrV4_from_string(text)
  /\ UNCHANGED <<call, input, parsed, text, stdout>>

\* formatting of addresses built from integers
NextV6Format == V6FromU128 \/ V6ToString \/ V6Reparse

SpecV6Format == Init /\ [][NextV6Format]_vars

\* parsing of V6 texts
NextV6Parse == V6FromString \/ V6ToString \/ V6Reparse

SpecV6Parse == Init /\ [][NextV6Parse]_vars

\* the V4 codec
NextV4 == V4FromU32 \/ V4FromString \/ V4FromHex \/ V4ToString \/ V4Reparse

SpecV4 == Init /\ [][NextV4]_vars

Next ==
  \/ V6FromU128
  \/ V6FromString
  \/ V6ToString
  \/ V6Reparse
  \/ V4FromU32
  \/ V4FromString
  \/ V4FromHex
  \/ V4ToString
  \/ V4Reparse

Spec == Init /\ [][Next]_vars

(***************************************************************************)
(* Vocabulary of the properties.  These definitions describe texts and     *)
(* values by position and by table; they share nothing with the operators  *)
(* that model the code.                                                    *)
(***************************************************************************)
\* the spelling of the group values of HextetVals: lowercase, no leading zero
Spelling ==
  (0 :> <<"0">>) @@ (416 :> <<"1", "a", "0">>) @@ (65535 :> <<"f", "f", "f", "f">>)

\* the groups lo..hi of v spelled and separated by single colons
RECURSIVE SpellGroups(_, _, _)
SpellGroups(v, lo, hi) ==
  IF lo > hi THEN <<>>
  ELSE IF lo = hi THEN Spelling[v[lo]]
  ELSE Spelling[v[lo]] \o <<":">> \o SpellGroups(v, lo + 1, hi)

\* groups a..b of v form a maximal run of zero groups
IsZeroRun(v, a, b) ==
  /\ a <= b
  /\ \A i \in a..b : v[i] = 0
  /\ (a = 1 \/ v[a - 1] # 0)
  /\ (b = 8 \/ v[b + 1] # 0)

ZeroRuns(v) == { r \in (1..8) \X (1..8) : IsZeroRun(v, r[1], r[2]) }

RunLen(r) == r[2] - r[1] + 1

LongestRunLen(v) ==
  IF ZeroRuns(v) = {} THEN 0
  ELSE CHOOSE n \in 1..8 : /\ \E r \in ZeroRuns(v) : RunLen(r) = n
                           /\ \A r \in ZeroRuns(v) : RunLen(r) <= n

\* the leftmost of the longest maximal zero runs
SelectedRun(v) ==
  CHOOSE r \in ZeroRuns(v) :
    /\ RunLen(r) = LongestRunLen(v)
    /\ \A q \in ZeroRuns(v) : RunLen(q) = LongestRunLen(v) => r[1] <= q[1]

\* the value given to from_u128 has been formatted
FormattedValue ==
  /\ call = "AddrV6::from_u128"
  /\ pc \in {"formatted", "reparsed"}

HasSubSeq(s, pat) ==
  \E i \in 1..(Len(s) - Len(pat) + 1) : SubSeq(s, i, i + Len(pat) - 1) = pat

\* a V6 text has been parsed
ParsedV6Text ==
  /\ call = "AddrV6::from_string"
  /\ pc # "idle"

\* the first colon of the run of colons that contains position i
ColonRunStart(t, i) ==
  CHOOSE j \in 1..i : /\ \A k \in j..i : t[k] = ":"
                      /\ (j = 1 \/ t[j - 1] # ":")

\* the positions where an occurrence of "::" starts, the occurrences counted
\* from left to right without overlap
MarkerStarts(t) ==
  { i \in 1..(Len(t) - 1) : /\ t[i] = ":"
                            /\ t[i + 1] = ":"
                            /\ (i - ColonRunStart(t, i)) % 2 = 0 }

\* the hextet tokens: the maximal runs of characters other than ":"
TokenStarts(t) == { i \in 1..Len(t) : t[i] # ":" /\ (i = 1 \/ t[i - 1] = ":") }

TokenEnd(t, i) ==
  CHOOSE j \in i..Len(t) : /\ \A k \in i..j : t[k] # ":"
                           /\ (j = Len(t) \/ t[j + 1] = ":")

HextetTokens(t) ==
  LET starts == TokenStarts(t)
      kth(k) == CHOOSE i \in starts : Cardinality({ j \in starts : j < i }) = k - 1
  IN [k \in 1..Cardinality(starts) |-> SubSeq(t, kth(k), TokenEnd(t, kth(k)))]

\* the number of tokens before the "::" of a text with one "::"
PrefixCount(t) ==
  LET m == CHOOSE i \in MarkerStarts(t) : TRUE
  IN Cardinality({ i \in TokenStarts(t) : i < m })

\* the value of a hexadecimal digit, either case
HexValue ==
  ("0" :> 0) @@ ("1" :> 1) @@ ("2" :> 2) @@ ("3" :> 3) @@ ("4" :> 4)
  @@ ("5" :> 5) @@ ("6" :> 6) @@ ("7" :> 7) @@ ("8" :> 8) @@ ("9" :> 9)
  @@ ("a" :> 10) @@ ("b" :> 11) @@ ("c" :> 12) @@ ("d" :> 13) @@ ("e" :> 14)
  @@ ("f" :> 15) @@ ("A" :> 10) @@ ("B" :> 11) @@ ("C" :> 12) @@ ("D" :> 13)
  @@ ("E" :> 14) @@ ("F" :> 15)

ValidHextet(tok) ==
  /\ Len(tok) <= 4
  /\ \A i \in 1..Len(tok) : tok[i] \in DOMAIN HexValue

\* the value of a token of 1 to 4 hexadecimal digits
HextetValue(tok) ==
  LET n == Len(tok)
      digit(k) == IF k < n THEN HexValue[tok[n - k]] ELSE 0
  IN digit(0) + 16 * digit(1) + 256 * digit(2) + 4096 * digit(3)

\* the 8 groups of p prefix tokens, zero groups, and the remaining tokens
ExpectedGroups(toks, p) ==
  LET n == Len(toks)
  IN [i \in 1..8 |-> IF i <= p THEN HextetValue(toks[i])
                     ELSE IF i > 8 - (n - p) THEN HextetValue(toks[i - (8 - n)])
                     ELSE 0]

\* a V4 text has been parsed in dotted form
ParsedV4Text ==
  /\ call = "AddrV4::from_string"
  /\ pc # "idle"

\* the components of a dotted text: what stands between the dots
DotComponents(t) ==
  LET dots == { i \in 1..Len(t) : t[i] = "." }
      n == Cardinality(dots)
      dot(k) == IF k = 0 THEN 0
                ELSE IF k > n THEN Len(t) + 1
                ELSE CHOOSE i \in dots : Cardinality({ j \in dots : j < i }) = k - 1
  IN [k \in 1..(n + 1) |-> SubSeq(t, dot(k - 1) + 1, dot(k) - 1)]

DecValue ==
  ("0" :> 0) @@ ("1" :> 1) @@ ("2" :> 2) @@ ("3" :> 3) @@ ("4" :> 4)
  @@ ("5" :> 5) @@ ("6" :> 6) @@ ("7" :> 7) @@ ("8" :> 8) @@ ("9" :> 9)

HasNonDigit(c) == \E i \in 1..Len(c) : c[i] \notin DOMAIN DecValue

\* the component without its leading zeros
Significant(c) ==
  LET nonzero == { i \in 1..Len(c) : c[i] # "0" }
  IN IF nonzero = {} THEN <<>>
     ELSE SubSeq(c, CHOOSE i \in nonzero : \A j \in nonzero : i <= j, Len(c))

\* the value of at most 3 decimal digits
OctetValue(c) ==
  LET n == Len(c)
      digit(k) == IF k < n THEN DecValue[c[n - k]] ELSE 0
  IN digit(0) + 10 * digit(1) + 100 * digit(2)

WellFormedOctet(c) ==
  /\ Len(c) > 0
  /\ ~HasNonDigit(c)
  /\ Len(Significant(c)) <= 3
  /\ OctetValue(Significant(c)) <= 255

\* component k is among the first four, holds a non-digit, and every
\* component before it is well formed
FirstDefectIsNonDigit(comps, k) ==
  /\ k \in 1..Len(comps)
  /\ k <= 4
  /\ HasNonDigit(comps[k])
  /\ \A j \in 1..(k - 1) : WellFormedOctet(comps[j])

(***************************************************************************)
(* Properties                                                              *)
(***************************************************************************)
\* C1: the text produced by to_string parses (from_string) to the value
\* that was formatted, for V6 and V4 values built from integers and for
\* the values of accepted texts.
C1_RoundTrip ==
  pc = "reparsed" => reparsed = Ok(parsed.val)

C1_Witness ==
  /\ pc = "reparsed"
  /\ call = "AddrV6::from_u128"
  /\ input = <<416, 0, 0, 416, 0, 0, 0, 65535>>
  /\ text = <<"1", "a", "0", ":", "0", ":", "0", ":", "1", "a", "0", ":", ":",
               "f", "f", "f", "f">>
  /\ reparsed.tag = "Ok"

\* C2: a non-zero value with a zero run of two or more groups is written
\* as the groups before the leftmost longest run, "::", and the groups
\* after it, every other group spelled literally.
C2_LongestLeftmost ==
  (FormattedValue /\ input # U128Zero /\ LongestRunLen(input) >= 2) =>
    LET r == SelectedRun(input)
    IN text = SpellGroups(input, 1, r[1] - 1) \o <<":", ":">>
                \o SpellGroups(input, r[2] + 1, 8)

C2_Witness ==
  /\ FormattedValue
  /\ input = <<65535, 0, 0, 416, 0, 0, 416, 0>>
  /\ text = <<"f", "f", "f", "f", ":", ":", "1", "a", "0", ":", "0", ":", "0", ":",
               "1", "a", "0", ":", "0">>

\* C3: a value whose zero runs all have length 0 or 1 is written as its 8
\* groups separated by single colons, without "::".
C3_NoSingleCompression ==
  (FormattedValue /\ LongestRunLen(input) <= 1) =>
    /\ text = SpellGroups(input, 1, 8)
    /\ ~HasSubSeq(text, <<":", ":">>)

C3_Witness ==
  /\ FormattedValue
  /\ input = <<416, 0, 416, 0, 65535, 0, 416, 0>>
  /\ text = <<"1", "a", "0", ":", "0", ":", "1", "a", "0", ":", "0", ":",
               "f", "f", "f", "f", ":", "0", ":", "1", "a", "0", ":", "0">>

\* C4: a selected run at group 0 gives a text that starts with "::", a
\* selected run ending at group 7 a text that ends with "::", the zero
\* value gives "::"; no text starts or ends with a single colon or
\* contains ":::".
C4_EdgeMarker ==
  FormattedValue =>
    /\ input = U128Zero => text = <<":", ":">>
    /\ (input # U128Zero /\ LongestRunLen(input) >= 2 /\ SelectedRun(input)[1] = 1) =>
         /\ SubSeq(text, 1, 2) = <<":", ":">>
         /\ SubSeq(text, 3, Len(text)) = SpellGroups(input, SelectedRun(input)[2] + 1, 8)
    /\ (input # U128Zero /\ LongestRunLen(input) >= 2 /\ SelectedRun(input)[2] = 8) =>
         /\ SubSeq(text, Len(text) - 1, Len(text)) = <<":", ":">>
         /\ SubSeq(text, 1, Len(text) - 2) = SpellGroups(input, 1, SelectedRun(input)[1] - 1)
    /\ Len(text) >= 2
    /\ text[1] = ":" => text[2] = ":"
    /\ text[Len(text)] = ":" => text[Len(text) - 1] = ":"
    /\ ~HasSubSeq(text, <<":", ":", ":">>)

C4_Witness ==
  /\ FormattedValue
  /\ input = <<0, 0, 0, 416, 0, 0, 65535, 0>>
  /\ text = <<":", ":", "1", "a", "0", ":", "0", ":", "0", ":", "f", "f", "f", "f", ":", "0">>

\* C5: a text with one "::" and valid tokens, p before and s after the
\* "::", fails with Overflow when p + s >= 8 and otherwise yields the p
\* prefix groups, 8 - p - s zero groups and the s suffix groups.
C5_OneCompression ==
  LET toks == HextetTokens(input)
  IN (/\ ParsedV6Text
      /\ Cardinality(MarkerStarts(input)) = 1
      /\ \A k \in 1..Len(toks) : ValidHextet(toks[k])) =>
       IF Len(toks) >= 8 THEN parsed = Err("Overflow")
       ELSE parsed = Ok(ExpectedGroups(toks, PrefixCount(input)))

C5_Witness ==
  /\ ParsedV6Text
  /\ input = <<"1", ":", "0", "0", "A", "B", ":", ":", "3">>
  /\ parsed = Ok(<<1, 171, 0, 0, 0, 0, 0, 3>>)

\* C6: a text in which "::" occurs two or more times fails with
\* DoubleCompression, whatever its tokens are.
C6_DoubleCompression ==
  (ParsedV6Text /\ Cardinality(MarkerStarts(input)) >= 2) =>
    parsed = Err("DoubleCompression")

C6_Witness ==
  /\ ParsedV6Text
  /\ input = <<"1", ":", ":", "2", ":", ":", "3", ":", "4", ":", "5", ":", "6", ":", "7", ":", "8">>
  /\ parsed = Err("DoubleCompression")

\* C7: a text without "::" of n non-empty tokens fails with
\* MissingComponents when n < 8 and with Overflow when n > 8; with n = 8
\* valid tokens it yields the 8 groups in order.
C7_NoCompression ==
  LET toks == HextetTokens(input)
  IN (ParsedV6Text /\ MarkerStarts(input) = {}) =>
       /\ Len(toks) < 8 => parsed = Err("MissingComponents")
       /\ Len(toks) > 8 => parsed = Err("Overflow")
       /\ (Len(toks) = 8 /\ \A k \in 1..8 : ValidHextet(toks[k])) =>
            parsed = Ok([i \in 1..8 |-> HextetValue(toks[i])])

C7_Witness ==
  /\ ParsedV6Text
  /\ input = <<"1", ":", "0", "0", "a", "b", ":", "3", ":", "4", ":", "5", ":", "6", ":", "7", ":", "8">>
  /\ parsed = Ok(<<1, 171, 3, 4, 5, 6, 7, 8>>)

\* C8: when the number of tokens is acceptable, the leftmost token that is
\* longer than 4 characters or holds a character that is no hexadecimal
\* digit decides the error: Overflow when it is longer than 4 characters,
\* IllegalChar otherwise; without such a token every token yields its
\* hexadecimal value, the same in either case.
C8_HextetValidation ==
  LET toks == HextetTokens(input)
      n == Len(toks)
      markers == Cardinality(MarkerStarts(input))
      invalid == { k \in 1..n : ~ValidHextet(toks[k]) }
      first == CHOOSE k \in invalid : \A j \in invalid : k <= j
      p == IF markers = 1 THEN PrefixCount(input) ELSE n
  IN (ParsedV6Text /\ ((markers = 0 /\ n = 8) \/ (markers = 1 /\ n < 8))) =>
       IF invalid # {}
         THEN parsed = Err(IF Len(toks[first]) > 4 THEN "Overflow" ELSE "IllegalChar")
         ELSE /\ parsed.tag = "Ok"
              /\ \A k \in 1..n :
                   parsed.val[IF k <= p THEN k ELSE 8 - n + k] = HextetValue(toks[k])

C8_Witness ==
  /\ ParsedV6Text
  /\ input = <<"0", "1", "2", "3", "4", ":", ":">>
  /\ parsed = Err("Overflow")

\* C9: from_string of AddrV4 succeeds exactly on 4 non-empty components
\* of digits whose value without leading zeros has at most 3 digits and is
\* at most 255; the result holds the four values in text order, most
\* significant octet first (the number ((a*256 + b)*256 + c)*256 + d).
C9_DottedQuad ==
  LET comps == DotComponents(input)
  IN ParsedV4Text =>
       /\ parsed.tag = "Ok" <=>
            (Len(comps) = 4 /\ \A k \in 1..4 : WellFormedOctet(comps[k]))
       /\ parsed.tag = "Ok" =>
            parsed.val = [k \in 1..4 |-> OctetValue(Significant(comps[k]))]

C9_Witness ==
  /\ ParsedV4Text
  /\ input = <<"0", "0", "0", "0", "0", "0", ".", "0", "0", "0", "1", "0", "0", ".", "0", ".", "1">>
  /\ parsed = Ok(<<0, 100, 0, 1>>)

\* C10 as stated: a non-digit in one of the first four components, every
\* earlier component being well formed, gives IllegalChar.
C10_Original ==
  LET comps == DotComponents(input)
  IN (ParsedV4Text /\ \E k \in 1..4 : FirstDefectIsNonDigit(comps, k)) =>
       parsed = Err("IllegalChar")

\* C10 amended: a non-digit in one of the first four components, every
\* earlier component being well formed, gives IllegalChar when that
\* component has at most 3 characters after its leading zeros (and
\* Overflow when it has more).
C10_IllegalCharShort ==
  LET comps == DotComponents(input)
  IN ParsedV4Text =>
       \A k \in 1..4 :
         FirstDefectIsNonDigit(comps, k) =>
           parsed = Err(IF Len(Significant(comps[k])) <= 3 THEN "IllegalChar"
                        ELSE "Overflow")

C10_Witness ==
  /\ ParsedV4Text
  /\ input = <<"-", "9", "2", ".", "1", "6", "8", ".", "0", ".", "1">>
  /\ parsed = Err("IllegalChar")

\* the number a component of decimal digits spells, leading zeros included
RECURSIVE DecNumber(_)
DecNumber(c) ==
  IF Len(c) = 0 THEN 0
  ELSE 10 * DecNumber(SubSeq(c, 1, Len(c) - 1)) + DecValue[c[Len(c)]]

\* a non-empty component of digits whose number is above 255
ExceedsOctet(c) ==
  /\ Len(c) > 0
  /\ ~HasNonDigit(c)
  /\ DecNumber(c) > 255

\* C11: a component of digits whose number exceeds 255, in any of the four
\* positions, is never accepted, and gives Overflow when every component
\* before it is well formed; every octet of an accepted text is the number
\* its component spells.
C11_NoClamp ==
  LET comps == DotComponents(input)
  IN ParsedV4Text =>
       /\ \A k \in 1..4 :
            (k <= Len(comps) /\ ExceedsOctet(comps[k])) =>
              /\ parsed.tag = "Err"
              /\ (\A j \in 1..(k - 1) : WellFormedOctet(comps[j])) =>
                   parsed = Err("Overflow")
       /\ parsed.tag = "Ok" =>
            \A k \in 1..4 : parsed.val[k] = DecNumber(comps[k])

C11_Witness ==
  /\ ParsedV4Text
  /\ input = <<"1", "9", "2", ".", "1", "6", "8", ".", "0", ".", "2", "5", "6">>
  /\ parsed = Err("Overflow")

\* C12: a text whose first four components are well formed and which has
\* a fourth dot fails with Overflow, whatever follows that dot: nothing, a
\* well formed component, or other characters.
C12_FifthComponent ==
  LET comps == DotComponents(input)
  IN (/\ ParsedV4Text
      /\ Len(comps) >= 5
      /\ \A k \in 1..4 : WellFormedOctet(comps[k])) =>
       parsed = Err("Overflow")

C12_Witness ==
  /\ ParsedV4Text
  /\ input = <<"1", "9", "2", ".", "1", "6", "8", ".", "0", ".", "1", ".", "-", "9", "2">>
  /\ parsed = Err("Overflow")

\* C13: a text of fewer than 4 components is never accepted, and a text of
\* 1 to 3 well formed components fails with MissingComponents.
C13_MissingComponents ==
  LET comps == DotComponents(input)
  IN (ParsedV4Text /\ Len(comps) < 4) =>
       /\ parsed.tag = "Err"
       /\ (\A k \in 1..Len(comps) : WellFormedOctet(comps[k])) =>
            parsed = Err("MissingComponents")

C13_Witness ==
  /\ ParsedV4Text
  /\ input = <<"1", "9", "2", ".", "1", "6", "8", ".", "0", "0", "0", "1", "0", "0">>
  /\ parsed = Err("MissingComponents")

\* C14: an empty component among the first four, every component before
\* it being well formed, gives NullComponent, also when the text has more
\* than four components.
C14_NullComponent ==
  LET comps == DotComponents(input)
  IN ParsedV4Text =>
       \A k \in 1..4 :
         (/\ k <= Len(comps)
          /\ comps[k] = <<>>
          /\ \A j \in 1..(k - 1) : WellFormedOctet(comps[j])) =>
           parsed = Err("NullComponent")

C14_Witness ==
  /\ ParsedV4Text
  /\ input = <<"1", "9", "2", ".", ".", "0", ".", "1", ".", "7">>
  /\ parsed = Err("NullComponent")

\* a text has been parsed by from_hex
ParsedHexText ==
  /\ call = "AddrV4::from_hex"
  /\ pc # "idle"

\* the hexadecimal digits of a text, in text order
HexDigitsOf(t) == SelectSeq(t, LAMBDA c : c \in DOMAIN HexValue)

\* C15: from_hex yields the value spelled by the hexadecimal digits of the
\* text, first digit most significant, when there are exactly 8 of them,
\* Overflow when there are more and MissingComponents when there are
\* fewer; the other characters of the text change nothing.
C15_HexDigitsOnly ==
  LET ds == HexDigitsOf(input)
  IN ParsedHexText =>
       IF Len(ds) = 8
         THEN parsed = Ok([k \in 1..4 |->
                             16 * HexValue[ds[2 * k - 1]] + HexValue[ds[2 * k]]])
       ELSE IF Len(ds) > 8 THEN parsed = Err("Overflow")
       ELSE parsed = Err("MissingComponents")

C15_Witness ==
  /\ ParsedHexText
  /\ input = <<"c", "0", "-", "A", "8", "-", "0", "1", "-", "f", "2">>
  /\ parsed = Ok(<<192, 168, 1, 242>>)

\* the outcomes each parse operation declares
V6Failures == {"IllegalChar", "Overflow", "MissingComponents", "DoubleCompression"}

HexFailures == {"Overflow", "MissingComponents"}

V4Failures == {"IllegalChar", "Overflow", "NullComponent", "MissingComponents"}

\* r is a value of the given number of groups below the given limit, or
\* one of the given failures; in particular r is no panic
DeclaredOutcome(r, groups, limit, failures) ==
  \/ /\ r.tag = "Ok"
     /\ DOMAIN r.val = 1..groups
     /\ \A i \in 1..groups : r.val[i] \in 0..(limit - 1)
  \/ /\ r.tag = "Err"
     /\ r.err \in failures

\* C16: every parse returns a value or one of its declared failures and
\* never panics: from_string of AddrV6 (the parse of a formatted text
\* included) never NullComponent, from_hex only Overflow or
\* MissingComponents, from_string of AddrV4 never DoubleCompression.
C16_Total ==
  /\ (pc # "idle" /\ call = "AddrV6::from_string") =>
       DeclaredOutcome(parsed, 8, 65536, V6Failures)
  /\ (pc # "idle" /\ call = "AddrV4::from_hex") =>
       DeclaredOutcome(parsed, 4, 256, HexFailures)
  /\ (pc # "idle" /\ call = "AddrV4::from_string") =>
       DeclaredOutcome(parsed, 4, 256, V4Failures)
  /\ (pc = "reparsed" /\ call \in V6Calls) =>
       DeclaredOutcome(reparsed, 8, 65536, V6Failures)
  /\ (pc = "reparsed" /\ call \in V4Calls) =>
       DeclaredOutcome(reparsed, 4, 256, V4Failures)

C16_Witness ==
  /\ ParsedV6Text
  /\ input = <<"1", ":", "2", ":", "3", ":", "4", ":", "5", ":", "6", ":", "7", ":",
                "8", ":", "9", ":", ":">>
  /\ parsed = Err("Overflow")

\* C17 as stated: to_string of AddrV6 writes nothing to standard output,
\* on any path and for any value.
C17_NoOutput ==
  stdout = <<>>

\* the value ::1a0 has been formatted and the line "error: [], 6, 7" printed
C17_Witness ==
  /\ FormattedValue
  /\ input = <<0, 0, 0, 0, 0, 0, 0, 416>>
  /\ text = <<":", ":", "1", "a", "0">>
  /\ stdout = << <<"error: ", <<>>, 6, 7>> >>

\* C18: a component among the first four that is longer than 3 characters
\* after its leading zeros, every component before it being well formed,
\* gives Overflow, whether or not it holds a character that is no digit.
C18_LengthBeforeChars ==
  LET comps == DotComponents(input)
  IN ParsedV4Text =>
       \A k \in 1..4 :
         (/\ k <= Len(comps)
          /\ Len(Significant(comps[k])) > 3
          /\ \A j \in 1..(k - 1) : WellFormedOctet(comps[j])) =>
           parsed = Err("Overflow")

C18_Witness ==
  /\ ParsedV4Text
  /\ input = <<"-", "1", "9", "2", ".", "1", "6", "8", ".", "0", ".", "1">>
  /\ parsed = Err("Overflow")

\* the maximal runs of colons of a text, as <<first, last>> positions
ColonRuns(t) ==
  { r \in (1..Len(t)) \X (1..Len(t)) :
      /\ r[1] <= r[2]
      /\ \A i \in r[1]..r[2] : t[i] = ":"
      /\ (r[1] = 1 \/ t[r[1] - 1] # ":")
      /\ (r[2] = Len(t) \/ t[r[2] + 1] # ":") }

\* every run of colons is a single ":" between two tokens or a "::"
WellFormedV6Text(t) ==
  \A r \in ColonRuns(t) :
    \/ r[2] = r[1] + 1
    \/ (r[2] = r[1] /\ r[1] > 1 /\ r[2] < Len(t))

\* C19 as stated: an accepted text has no empty token other than the "::"
\* marker: it neither starts nor ends with a single ":", and has no ":"
\* next to the "::".
C19_WellFormedOnly ==
  (ParsedV6Text /\ parsed.tag = "Ok") => WellFormedV6Text(input)

\* the text ":1:2:3:4:5:6:7:8" has been accepted
C19_Witness ==
  /\ ParsedV6Text
  /\ input = <<":", "1", ":", "2", ":", "3", ":", "4", ":", "5", ":", "6", ":",
                "7", ":", "8">>
  /\ parsed = Ok(<<1, 2, 3, 4, 5, 6, 7, 8>>)

\* C20: a text with a token that is no valid hextet fails with the verdict
\* on its counts when there is one (DoubleCompression for two or more
\* "::", MissingComponents or Overflow for the number of tokens), and
\* otherwise with the error of its leftmost invalid token, a token before
\* the "::" counting as left of every token after it.
C20_ErrorPrecedence ==
  LET toks == HextetTokens(input)
      n == Len(toks)
      markers == Cardinality(MarkerStarts(input))
      invalid == { k \in 1..n : ~ValidHextet(toks[k]) }
      first == CHOOSE k \in invalid : \A j \in invalid : k <= j
  IN (ParsedV6Text /\ invalid # {}) =>
       parsed = Err(IF markers >= 2 THEN "DoubleCompression"
                    ELSE IF markers = 0 /\ n < 8 THEN "MissingComponents"
                    ELSE IF markers = 0 /\ n > 8 THEN "Overflow"
                    ELSE IF markers = 1 /\ n >= 8 THEN "Overflow"
                    ELSE IF Len(toks[first]) > 4 THEN "Overflow"
                    ELSE "IllegalChar")

C20_Witness ==
  /\ ParsedV6Text
  /\ input = <<"1", "2", "3", "g", ":", ":", "0", "1", "2", "3", "4">>
  /\ parsed = Err("IllegalChar")

====
